---- MODULE Spec2Model ----
(***************************************************************************)
(* Dijkstra's shortest-path engine and its path reconstruction, modelled    *)
(* from rust/src/dijkstra.rs.                                               *)
(*                                                                         *)
(* A behaviour is one call: dijkstra(graph, start) runs statement by        *)
(* statement (Pop, Relax, Exit); when it has returned, PathCheck picks the  *)
(* target `end` and continues as dijkstra_path(graph, start, end), whose    *)
(* first statement is that very call of dijkstra.  A HashMap lookup with    *)
(* the index operator on a missing key panics: pc = "panic".                *)
(*                                                                         *)
(* Weights and distances are f64 in the code and integers here, with Inf    *)
(* for f64::INFINITY; the sums the model forms are exact in f64 too.        *)
(* BinaryHeap is modelled by its contract: pop yields an entry that is      *)
(* greatest under PQItem::cmp, any one of them when several are.            *)
(***************************************************************************)
EXTENDS Integers, Sequences, FiniteSets, TLC

\* ------------------------------------------------------------------ bounds
MaxWeight == 1
MaxEdges == 3

\* The longest backward walk followed; a walk caught in a cycle of
\* predecessors has no end in the code.
MaxPath == 8

\* ------------------------------------------------------------ value domains
\* f64::INFINITY: larger than every sum of weights the model can form.
Inf == 1000000

\* Option::None, for predecessors and for the cursor of the backward walk.
None == "None"

NodeOrder == <<"A", "B", "C">>

Nodes == {NodeOrder[n] : n \in 1..Len(NodeOrder)}

\* The source of the enumerated graphs.  The code reads node identifiers with
\* Eq and Hash alone, so renaming the nodes of a graph renames the run: every
\* (graph, source) over Nodes is a renaming of one whose source is FirstNode.
FirstNode == NodeOrder[1]

Weights == 0..MaxWeight

\* One (neighbor, weight) pair of an adjacency list.
Edge == [node : Nodes, weight : Weights]

\* PQItem { node, distance }
PQItem(n, d) == [node |-> n, distance |-> d]

RECURSIVE SumLens(_, _)
SumLens(lens, n) ==
    IF n = 0 THEN 0
    ELSE SumLens(lens, n - 1)
         + (IF NodeOrder[n] \in DOMAIN lens THEN lens[NodeOrder[n]] ELSE 0)

NodeIndex(k) == CHOOSE n \in 1..Len(NodeOrder) : NodeOrder[n] = k

\* The graph with key set K whose adjacency lists have the lengths `lens` and,
\* laid end to end in key order, the entries `flat`.
BuildGraph(K, lens, flat) ==
    [k \in K |->
        SubSeq(flat, SumLens(lens, NodeIndex(k) - 1) + 1,
                     SumLens(lens, NodeIndex(k)))]

\* The graphs of the unit tests.
TestSimpleGraph ==
    [k \in {"A", "B", "C", "D"} |->
        CASE k = "A" -> <<[node |-> "B", weight |-> 4], [node |-> "C", weight |-> 2]>>
          [] k = "B" -> <<[node |-> "C", weight |-> 1], [node |-> "D", weight |-> 5]>>
          [] k = "C" -> <<[node |-> "D", weight |-> 8]>>
          [] k = "D" -> <<>>]

TestPathGraph ==
    [k \in {"A", "B", "C", "D"} |->
        CASE k = "A" -> <<[node |-> "B", weight |-> 1], [node |-> "C", weight |-> 4]>>
          [] k = "B" -> <<[node |-> "C", weight |-> 2], [node |-> "D", weight |-> 5]>>
          [] k = "C" -> <<[node |-> "D", weight |-> 1]>>
          [] k = "D" -> <<>>]

TestNoPathGraph ==
    [k \in {"A", "B", "C"} |->
        CASE k = "A" -> <<[node |-> "B", weight |-> 1]>>
          [] k = "B" -> <<>>
          [] k = "C" -> <<>>]

\* Two equally short routes from A to D, through B and through C.
DiamondGraph ==
    [k \in {"A", "B", "C", "D"} |->
        CASE k = "A" -> <<[node |-> "B", weight |-> 1], [node |-> "C", weight |-> 1]>>
          [] k = "B" -> <<[node |-> "D", weight |-> 1]>>
          [] k = "C" -> <<[node |-> "D", weight |-> 1]>>
          [] k = "D" -> <<>>]

FixtureGraphs == {TestSimpleGraph, TestPathGraph, TestNoPathGraph, DiamondGraph}

AllNodes == Nodes \cup {"D"}

\* ------------------------------------------------------------------- state
VARIABLES
    graph,             \* &Graph<T>: key -> Vec<(T, f64)>
    start,             \* &T
    distances,         \* HashMap<T, f64>
    predecessors,      \* HashMap<T, Option<T>>
    visited,           \* HashSet<T>
    pq,                \* BinaryHeap<PQItem<T>>, in insertion order
    current,           \* node of the entry popped last
    current_distance,  \* distance of the entry popped last
    idx,               \* position of the for loop in graph[current]
    end,               \* &T of dijkstra_path, None before it is read
    path,              \* Vec<T> of dijkstra_path
    path_current,      \* Option<T> cursor of the backward walk
    first,             \* DijkstraResult of an earlier call on the same input
    pc                 \* "loop", "relax", "done", "walk", "ok", "err", "panic"

vars == <<graph, start, distances, predecessors, visited, pq, current,
          current_distance, idx, end, path, path_current, first, pc>>

\* No earlier call has returned.
NoResult == [returned |-> FALSE, distances |-> <<>>, predecessors |-> <<>>]

\* ------------------------------------------------------------ initial state
\* dijkstra, lines 88-104: the maps over graph.keys(), the source at 0 and
\* the queue holding (start, 0).
\* Mutant: the keys start at a large finite value instead of f64::INFINITY.
InitDistancesFinite(g, s) ==
    [n \in (DOMAIN g) \cup {s} |-> IF n = s THEN 0 ELSE Inf - 1]

InitDistances(g, s) == [n \in (DOMAIN g) \cup {s} |-> IF n = s THEN 0 ELSE Inf]

InitPredecessors(g) == [n \in DOMAIN g |-> None]

InitRun(g, s) ==
    /\ graph = g
    /\ start = s
    /\ distances = InitDistances(g, s)
    /\ predecessors = InitPredecessors(g)
    /\ visited = {}
    /\ pq = <<PQItem(s, 0)>>
    /\ current = None
    /\ current_distance = 0
    /\ idx = 0
    /\ end = None
    /\ path = <<>>
    /\ path_current = None
    /\ first = NoResult
    /\ pc = "loop"

Init ==
    \/ \E K \in SUBSET Nodes :
         \E lens \in [K -> 0..MaxEdges] :
            /\ SumLens(lens, Len(NodeOrder)) <= MaxEdges
            /\ \E flat \in [1..SumLens(lens, Len(NodeOrder)) -> Edge] :
                 InitRun(BuildGraph(K, lens, flat), FirstNode)
    \/ \E g \in FixtureGraphs : \E s \in AllNodes : InitRun(g, s)

\* Graphs outside the precondition: at most MaxNegEdges edges, of weight -1,
\* 0 or 1.  The code accepts them without a test.
MaxNegEdges == 2

SignedEdge == [node : Nodes, weight : {-1, 0, 1}]

InitSigned ==
    \E K \in SUBSET Nodes :
       \E lens \in [K -> 0..MaxNegEdges] :
          /\ SumLens(lens, Len(NodeOrder)) <= MaxNegEdges
          /\ \E flat \in [1..SumLens(lens, Len(NodeOrder)) -> SignedEdge] :
               InitRun(BuildGraph(K, lens, flat), FirstNode)

\* ---------------------------------------------------------------- dijkstra
\* Mutant: the comparison is not reversed, the heap yields a greatest distance.
IsMax(k) == \A j \in 1..Len(pq) : pq[k].distance >= pq[j].distance

\* Mutant: the comparison calls all entries equal, the heap yields any entry.
IsAny(k) == k \in 1..Len(pq)

\* PQItem::cmp orders by distance alone, reversed: the heap's maximum is an
\* entry of least distance, and which of several such entries is unspecified.
IsMin(k) == \A j \in 1..Len(pq) : pq[k].distance <= pq[j].distance

\* Mutant: the entry is read with peek() and stays in the queue.
Keep(q, k) == q

\* pq.pop() takes the entry at position k out of the queue.
Remove(q, k) == SubSeq(q, 1, k - 1) \o SubSeq(q, k + 1, Len(q))

\* f64 addition on the model's values.
Add(a, b) == IF a = Inf \/ b = Inf THEN Inf ELSE a + b

\* Lines 106-119: pop, the visited test, the insert into visited, the stale
\* test and the lookup of the neighbours.
Pop ==
    /\ pc = "loop"
    /\ \E k \in 1..Len(pq) :
        /\ IsMin(k)
        /\ pq' = Remove(pq, k)
        /\ current' = pq[k].node
        /\ current_distance' = pq[k].distance
        /\ IF pq[k].node \in visited
           THEN /\ visited' = visited
                /\ pc' = "loop"
           ELSE /\ visited' = visited \cup {pq[k].node}
                /\ pc' = IF pq[k].node \notin DOMAIN distances
                             THEN "panic"
                         ELSE IF pq[k].distance > distances[pq[k].node]
                             THEN "loop"
                         ELSE IF pq[k].node \in DOMAIN graph
                                 /\ Len(graph[pq[k].node]) > 0
                             THEN "relax"
                         ELSE "loop"
    /\ idx' = 1
    /\ UNCHANGED <<graph, start, distances, predecessors, end, path, path_current,
                   first>>

\* Mutant: a path of equal length replaces the recorded one too.
ShorterOrEqual(d, old) == d <= old

\* Line 124: the test `distance < distances[neighbor]`.
Shorter(d, old) == d < old

\* Mutant: the neighbour is recorded as its own predecessor.
SetPredecessorSelf(preds, n, u) ==
    [m \in (DOMAIN preds) \cup {n} |-> IF m = n THEN n ELSE preds[m]]

\* Line 126: predecessors.insert(neighbor, Some(current)).
SetPredecessor(preds, n, u) ==
    [m \in (DOMAIN preds) \cup {n} |-> IF m = n THEN u ELSE preds[m]]

\* Lines 120-131: one turn of the for loop over graph[current].
Relax ==
    /\ pc = "relax"
    /\ LET neighbor == graph[current][idx].node
           weight == graph[current][idx].weight
           distance == Add(current_distance, weight)
       IN  IF neighbor \notin DOMAIN distances
           THEN /\ pc' = "panic"
                /\ UNCHANGED <<distances, predecessors, pq, idx>>
           ELSE /\ IF Shorter(distance, distances[neighbor])
                   THEN /\ distances' = [distances EXCEPT ![neighbor] = distance]
                        /\ predecessors' =
                             SetPredecessor(predecessors, neighbor, current)
                        /\ pq' = Append(pq, PQItem(neighbor, distance))
                   ELSE UNCHANGED <<distances, predecessors, pq>>
                /\ idx' = idx + 1
                /\ pc' = IF idx = Len(graph[current]) THEN "loop" ELSE "relax"
    /\ UNCHANGED <<graph, start, visited, current, current_distance, end, path,
                   path_current, first>>

\* Lines 106 and 136-139: the queue is empty, the maps are returned.
Exit ==
    /\ pc = "loop"
    /\ pq = <<>>
    /\ pc' = "done"
    /\ UNCHANGED <<graph, start, distances, predecessors, visited, pq, current,
                   current_distance, idx, end, path, path_current, first>>

\* ----------------------------------------------------------- dijkstra_path
\* Lines 157-166: with the result of dijkstra(graph, start), the test of the
\* target's distance and the start of the walk.
PathCheck ==
    /\ pc = "done"
    /\ end = None
    /\ \E e \in AllNodes :
        /\ end' = e
        /\ IF e \notin DOMAIN distances
           THEN /\ pc' = "panic"
                /\ path_current' = None
           ELSE IF distances[e] = Inf
           THEN /\ pc' = "err"
                /\ path_current' = None
           ELSE /\ pc' = "walk"
                /\ path_current' = e
    /\ path' = <<>>
    /\ UNCHANGED <<graph, start, distances, predecessors, visited, pq, current,
                   current_distance, idx, first>>

\* Lines 168-171: one turn of the backward walk.
Walk ==
    /\ pc = "walk"
    /\ path_current # None
    /\ Len(path) < MaxPath
    /\ path' = Append(path, path_current)
    /\ IF path_current \notin DOMAIN predecessors
       THEN /\ pc' = "panic"
            /\ path_current' = path_current
       ELSE /\ pc' = "walk"
            /\ path_current' = predecessors[path_current]
    /\ UNCHANGED <<graph, start, distances, predecessors, visited, pq, current,
                   current_distance, idx, end, first>>

\* Mutant: path.reverse() is left out.
NoReverse(s) == s

\* path.reverse()
Reverse(s) == [n \in 1..Len(s) |-> s[Len(s) + 1 - n]]

\* Lines 168 and 173-178: the walk has run out, the path is reversed and
\* returned with distances[end].
PathReturn ==
    /\ pc = "walk"
    /\ path_current = None
    /\ path' = Reverse(path)
    /\ pc' = "ok"
    /\ UNCHANGED <<graph, start, distances, predecessors, visited, pq, current,
                   current_distance, idx, end, path_current, first>>

Next == Pop \/ Relax \/ Exit \/ PathCheck \/ Walk \/ PathReturn

Spec == Init /\ [][Next]_vars

\* The code has no suspension point: a call that can take a step takes it.
FairSpec == Init /\ [][Next]_vars /\ WF_vars(Next)

\* ------------------------------------------------------ two calls in a row
\* The caller keeps the result of dijkstra(graph, start) and calls it again
\* on the same graph and source: lines 88-104 once more.
Rerun ==
    /\ pc = "done"
    /\ end = None
    /\ ~first.returned
    /\ first' = [returned |-> TRUE, distances |-> distances,
                 predecessors |-> predecessors]
    /\ distances' = InitDistances(graph, start)
    /\ predecessors' = InitPredecessors(graph)
    /\ visited' = {}
    /\ pq' = <<PQItem(start, 0)>>
    /\ current' = None
    /\ current_distance' = 0
    /\ idx' = 0
    /\ pc' = "loop"
    /\ UNCHANGED <<graph, start, end, path, path_current>>

NextTwice == Pop \/ Relax \/ Exit \/ Rerun

SpecTwice == Init /\ [][NextTwice]_vars

\* The same calls on graphs that may hold negative weights.
SpecSigned == InitSigned /\ [][Next]_vars

\* ------------------------------------------------- graphs, paths, distances
\* The edges of g as <<from, to, weight>>.
EdgeSet(g) ==
    UNION {{<<u, g[u][i].node, g[u][i].weight>> : i \in 1..Len(g[u])} : u \in DOMAIN g}

\* Every node g or the call names.
Universe(g, s) == (DOMAIN g) \cup {e[2] : e \in EdgeSet(g)} \cup {s}

\* Every edge target has an entry in the key set.
Closed(g) == \A e \in EdgeSet(g) : e[2] \in DOMAIN g

Least(S) == CHOOSE x \in S : \A y \in S : x <= y

\* One more edge: acc with, for every edge of E, the sum that prev holds for
\* the edge's origin extended by the edge, where that is less.
RECURSIVE ExtendByEdges(_, _, _)
ExtendByEdges(prev, acc, E) ==
    IF E = {} THEN acc
    ELSE LET e == CHOOSE x \in E : TRUE
             sum == prev[e[1]] + e[3]
         IN  ExtendByEdges(prev,
                           IF prev[e[1]] # Inf /\ sum < acc[e[2]]
                               THEN [acc EXCEPT ![e[2]] = sum]
                               ELSE acc,
                           E \ {e})

\* For each node the least sum of weights over the paths from s of at most k
\* edges, Inf where there is none.
RECURSIVE MinSums(_, _, _)
MinSums(g, s, k) ==
    IF k = 0
    THEN [v \in Universe(g, s) |-> IF v = s THEN 0 ELSE Inf]
    ELSE LET prev == MinSums(g, s, k - 1)
         IN  ExtendByEdges(prev, prev, EdgeSet(g))

\* A path that repeats no node has fewer edges than there are nodes, and with
\* weights >= 0 dropping a cycle never makes a path longer.
MinPathSum(g, s) == MinSums(g, s, Cardinality(Universe(g, s)))

\* The nodes a path from a node of S leads to.
RECURSIVE ReachFrom(_, _)
ReachFrom(g, S) ==
    LET more == S \cup {e[2] : e \in {x \in EdgeSet(g) : x[1] \in S}}
    IN  IF more = S THEN S ELSE ReachFrom(g, more)

Reachable(v) == v \in ReachFrom(graph, {start})

\* The sums of weights along the node sequence p[1..n], one edge chosen for
\* each consecutive pair; empty when some pair is no edge.
RECURSIVE PathSums(_, _, _)
PathSums(g, p, n) ==
    IF n <= 1 THEN {0}
    ELSE {t + e[3] : t \in PathSums(g, p, n - 1),
                     e \in {x \in EdgeSet(g) : x[1] = p[n - 1] /\ x[2] = p[n]}}

\* dijkstra_path has ended: with a PathResult, with the error, or in a panic.
Ended == pc \in {"ok", "err", "panic"}

\* ------------------------------------------------------------------ claims

\* C1: on a graph whose edge targets all have entries, when dijkstra returns,
\* the distance of every node reachable from the source is the least sum of
\* edge weights over the paths from the source to it.
C1_DistancesAreMinimal ==
    (pc = "done" /\ Closed(graph)) =>
        \A v \in ReachFrom(graph, {start}) :
            /\ v \in DOMAIN distances
            /\ distances[v] = MinPathSum(graph, start)[v]

\* Scenario 1 (test_simple_graph): D is reached at 9 through B, after a first
\* estimate of 10 through C.
C1_Witness ==
    /\ pc = "done"
    /\ graph = TestSimpleGraph
    /\ start = "A"
    /\ distances = [n \in {"A", "B", "C", "D"} |->
                      CASE n = "A" -> 0 [] n = "B" -> 4 [] n = "C" -> 2 [] n = "D" -> 9]

\* C2: a path dijkstra_path returns starts with the source, ends with the
\* target, steps along edges of the graph only, and its edge weights add up
\* to the returned distance.
C2_PathIsConsistent ==
    pc = "ok" =>
        /\ Len(path) >= 1
        /\ path[1] = start
        /\ path[Len(path)] = end
        /\ distances[end] \in PathSums(graph, path, Len(path))

\* Scenario 2 (test_path_finding): A to D is [A, B, C, D] at distance 4.
C2_Witness ==
    /\ pc = "ok"
    /\ graph = TestPathGraph
    /\ start = "A"
    /\ end = "D"
    /\ path = <<"A", "B", "C", "D">>
    /\ distances[end] = 4

\* C3: with source and target both keys of the graph, dijkstra_path ends with
\* the NoPathExists error exactly when the target is unreachable, and with a
\* path result otherwise.  A panic inside dijkstra (end not yet read) ends the
\* call for every target.
C3_ErrExactlyWhenUnreachable ==
    (Ended /\ start \in DOMAIN graph /\ end \in (DOMAIN graph) \cup {None}) =>
        /\ end # None
        /\ Reachable(end) => pc = "ok"
        /\ ~Reachable(end) => pc = "err"

\* What is left of C3 once dijkstra has returned: the statements of
\* dijkstra_path itself end in the error exactly for an unreachable target.
C3_AfterDijkstraReturned ==
    (Ended /\ start \in DOMAIN graph /\ end \in DOMAIN graph) =>
        /\ Reachable(end) => pc = "ok"
        /\ ~Reachable(end) => pc = "err"

\* C4: dijkstra never fails, also when a node is an edge target only.
C4_DijkstraNeverFails == (end = None) => pc # "panic"

\* C5: a target that is neither a key nor the source ends dijkstra_path with
\* the NoPathExists error.
C5_UnknownTargetIsNoPath ==
    (Ended /\ end # None /\ end \notin (DOMAIN graph) \cup {start}) => pc = "err"

\* The distance map always holds the source at 0, and a returned map for a
\* source that is no key holds every other node at Inf (Scenario 4).
SourceIsZeroInTheMap ==
    /\ start \in DOMAIN distances
    /\ distances[start] = 0
    /\ (pc = "done" /\ start \notin DOMAIN graph) =>
          \A n \in (DOMAIN distances) \ {start} : distances[n] = Inf

\* C6: for every graph and every source, dijkstra returns a distance map, with
\* the source at 0 in it and, when the source is no key, every other node at
\* Inf: no run of dijkstra stops short of returning, and the map is as said.
C6_ReturnsMapWithSourceZero ==
    /\ (end = None) => pc # "panic"
    /\ SourceIsZeroInTheMap

\* C7: when dijkstra returns, every key of the graph that is unreachable from
\* the source has distance Inf and predecessor None.
C7_UnreachableStaysInfinite ==
    pc = "done" =>
        \A n \in DOMAIN graph :
            ~Reachable(n) => distances[n] = Inf /\ predecessors[n] = None

\* Scenario 3 (test_no_path): C is unreachable from A, B is reached.
C7_Witness ==
    /\ pc = "done"
    /\ graph = TestNoPathGraph
    /\ start = "A"
    /\ distances["B"] = 1
    /\ distances["C"] = Inf
    /\ predecessors["C"] = None

\* C8: dijkstra_path(graph, source, source) ends with distance 0 and the path
\* [source], whether or not the source is a key of the graph.
C8_SourceToItself ==
    (Ended /\ end = start) =>
        /\ pc = "ok"
        /\ path = <<start>>
        /\ distances[end] = 0

C10_Terminates ==
    <>(\/ pc = "done" /\ pq = <<>>
       \/ pc = "panic" /\ ~Closed(graph))

\* dijkstra has returned on a graph with a cycle of zero-weight edges through
\* the source.
C10_Witness ==
    /\ pc = "done"
    /\ \E e \in EdgeSet(graph), f \in EdgeSet(graph) :
          /\ e[1] = start /\ e[2] # start /\ e[3] = 0
          /\ f[1] = e[2] /\ f[2] = start /\ f[3] = 0

\* C11: in every state each visited node is recorded at its least path sum
\* from the source, and no step changes the recorded distance of a node that
\* is already visited.
C11_VisitedIsFinal ==
    /\ [](visited # {} =>
            LET least == MinPathSum(graph, start)
            IN  \A v \in visited :
                    /\ v \in DOMAIN distances
                    /\ distances[v] = least[v])
    /\ [][\A v \in visited : distances'[v] = distances[v]]_vars

\* D of test_simple_graph is visited at 9, its first estimate of 10 still in
\* the queue, and B and C have been relaxed after their visits.
C11_Witness ==
    /\ graph = TestSimpleGraph
    /\ start = "A"
    /\ visited = {"A", "B", "C", "D"}
    /\ distances["D"] = 9
    /\ pq = <<PQItem("D", 10)>>

\* The predecessor recorded for n: None also where the map has no entry.
RecordedPredecessor(n) ==
    IF n \in DOMAIN predecessors THEN predecessors[n] ELSE None

\* Following recorded predecessors from n arrives at the source in at most k
\* steps.
RECURSIVE ReachesSourceIn(_, _)
ReachesSourceIn(n, k) ==
    \/ n = start
    \/ /\ k > 0
       /\ RecordedPredecessor(n) # None
       /\ ReachesSourceIn(RecordedPredecessor(n), k - 1)

\* C12: in the result of dijkstra the source has no predecessor, and from
\* every node at a finite distance the predecessors lead to the source in at
\* most |V| - 1 steps: they hold no cycle.
C12_PredecessorsFormATree ==
    pc = "done" =>
        /\ RecordedPredecessor(start) = None
        /\ \A n \in DOMAIN distances :
              distances[n] # Inf =>
                  ReachesSourceIn(n, Cardinality(DOMAIN distances) - 1)

\* test_path_finding: D, C, B, A is a chain of |V| - 1 = 3 steps.
C12_Witness ==
    /\ pc = "done"
    /\ graph = TestPathGraph
    /\ start = "A"
    /\ predecessors["D"] = "C"
    /\ predecessors["C"] = "B"
    /\ predecessors["B"] = "A"
    /\ predecessors["A"] = None

\* C13: on every predecessor map dijkstra can produce, also one with a cycle
\* (which a negative weight can cause), the backward walk stops within |V|
\* steps: it never holds more than |V| nodes.
C13_WalkStopsWithinV ==
    pc \in {"walk", "ok"} => Len(path) <= Cardinality(Universe(graph, start))

\* C14: the distance map and the predecessor map dijkstra returns have the
\* same key set, the keys of the graph and the source, also when the source
\* is no key of the graph.
C14_SameKeySet ==
    pc = "done" =>
        /\ DOMAIN distances = (DOMAIN graph) \cup {start}
        /\ DOMAIN predecessors = DOMAIN distances

\* What holds of the key sets: the distances cover the keys and the source,
\* the predecessors the keys alone.
KeySetsOfTheResult ==
    pc = "done" =>
        /\ DOMAIN distances = (DOMAIN graph) \cup {start}
        /\ DOMAIN predecessors = DOMAIN graph

\* C15: in every state a node other than the source has a predecessor
\* exactly when its recorded distance is finite, and then the graph has an
\* edge from that predecessor to the node whose weight, added to the
\* predecessor's recorded distance, gives the node's recorded distance.
C15_LockStep ==
    \A n \in (DOMAIN distances) \ {start} :
        /\ (RecordedPredecessor(n) # None) <=> (distances[n] # Inf)
        /\ RecordedPredecessor(n) # None =>
              /\ RecordedPredecessor(n) \in DOMAIN distances
              /\ \E e \in EdgeSet(graph) :
                    /\ e[1] = RecordedPredecessor(n)
                    /\ e[2] = n
                    /\ Add(distances[e[1]], e[3]) = distances[n]

\* In the middle of the run on test_simple_graph: B is reached from A, D has
\* first been reached from C and then, shorter, from B.
C15_Witness ==
    /\ graph = TestSimpleGraph
    /\ start = "A"
    /\ pc = "loop"
    /\ visited = {"A", "B", "C"}
    /\ predecessors["B"] = "A"
    /\ predecessors["D"] = "B"
    /\ distances["D"] = 9

\* C16: whenever a pop marks a node visited, the popped entry holds the
\* node's current distance: the stale test of line 114 discards nothing, and
\* a node with outgoing edges goes on to have them relaxed.
C16_PopIsCurrent ==
    [][visited' # visited =>
          /\ current_distance' = distances[current']
          /\ (current' \in DOMAIN graph /\ Len(graph[current']) > 0)
                => (pc' = "relax" /\ idx' = 1)]_vars

\* D of test_simple_graph has been popped at 9 and marked visited while its
\* older entry at 10 waits in the queue.
C16_Witness ==
    /\ graph = TestSimpleGraph
    /\ start = "A"
    /\ current = "D"
    /\ current_distance = 9
    /\ "D" \in visited
    /\ pq = <<PQItem("D", 10)>>

\* C17: the distances of the entries popped never decrease from one pop to
\* the next, and each popped entry is at most every entry left in the queue.
C17_PopsNeverDecrease ==
    [][Len(pq') < Len(pq) =>
          /\ current_distance' >= current_distance
          /\ \A j \in 1..Len(pq') : current_distance' <= pq'[j].distance]_vars

\* test_simple_graph after the pops at 0, 2 and 4: B has just been popped,
\* the entry of D at 10 is left in the queue.
C17_Witness ==
    /\ graph = TestSimpleGraph
    /\ start = "A"
    /\ pc = "relax"
    /\ idx = 1
    /\ current = "B"
    /\ current_distance = 4
    /\ visited = {"A", "B", "C"}
    /\ pq = <<PQItem("D", 10)>>

====
